---------------------------- MODULE Spec2Model ----------------------------
(***************************************************************************)
(* A model of src/python/generator.py (seqGAN generator): the token mask   *)
(* ignoreTokens, GeneratorLoss.forward, Generator.forward,                 *)
(* Generator.generate / generate_LSTMCore and train_generator.             *)
(*                                                                         *)
(* Tensors are records [shape, data]: shape is the sequence of dimension   *)
(* sizes and data maps every 0-based index tuple to an element, so that    *)
(* view, slicing, cat and index assignment are index arithmetic as in      *)
(* torch.  Python's None is the empty tuple and a present optional value v *)
(* is <<v>>.                                                               *)
(*                                                                         *)
(* Numbers.  Scores (logits) are integers in units of ln 2, so that        *)
(* e^score = 2^score is exact; a probability is a fraction [num, den];     *)
(* natural logarithms are held in thousandths (LnMilli).  float32's exp    *)
(* underflows to exactly 0 below 2^-149 (EXP_UNDERFLOW).                   *)
(*                                                                         *)
(* config.py and lstmCore.py are not part of the source at hand: the       *)
(* values of VOCAB_SIZE, SEQ_LENGTH, MAXINT, GEN_NUM_EPOCH and the         *)
(* behaviour of the pretrained LSTM (pretrain_model) are modelled from the *)
(* interface generator.py uses.  VOCAB_SIZE and SEQ_LENGTH are state that  *)
(* Init fixes and no action changes.  Every scenario has sentence lengths  *)
(* below VOCAB_SIZE (a vocabulary larger than the sequence length).        *)
(***************************************************************************)
EXTENDS Integers, Sequences, FiniteSets, TLC

VARIABLES
    pc,           \* position of the running call
    VOCAB_SIZE,   \* config.VOCAB_SIZE
    SEQ_LENGTH,   \* config.SEQ_LENGTH
    model,        \* the Generator object and its pretrain_model
    call,         \* arguments and locals of the running call
    result,       \* what the call returned (None until it returns)
    hist          \* observations of the run: calls made, slices taken

vars == <<pc, VOCAB_SIZE, SEQ_LENGTH, model, call, result, hist>>

-----------------------------------------------------------------------------
(* Bounds of the scenarios *)

MaxBatch == 2        \* batch_size ranges over 1..MaxBatch
MaxRows == 3         \* train_generator: number of input sequences N, 1..MaxRows
MaxEpoch == 2        \* train_generator: iter_n_gen, 1..MaxEpoch
MaxSeqLength == 3    \* generate: SEQ_LENGTH ranges over 1..MaxSeqLength

(* config.py *)
MAXINT == 10000
GEN_NUM_EPOCH == 2

(* float32 and fixed point *)
EXP_UNDERFLOW == 149          \* exp(d ln 2) = 2^d is 0.0 in float32 for d < -149
LOG_FLOOR == -46052           \* ln(1e-20) in thousandths
LnMilli == <<0, 693, 1099, 1386, 1609, 1792, 1946, 2079>>  \* ln(n) * 1000, n = 1..8
LR_PERCENT == 1               \* lr = 0.01; parameters are held in hundredths

None == <<>>
Some(v) == <<v>>
IsNone(o) == o = <<>>
Val(o) == o[1]

-----------------------------------------------------------------------------
(* Tensors *)

RECURSIVE Prod(_)
Prod(s) == IF Len(s) = 0 THEN 1 ELSE Head(s) * Prod(Tail(s))

Numel(t) == Prod(t.shape)

Indices(shape) ==
    CASE Len(shape) = 1 -> {<<i>> : i \in 0 .. shape[1] - 1}
      [] Len(shape) = 2 -> (0 .. shape[1] - 1) \X (0 .. shape[2] - 1)
      [] Len(shape) = 3 -> (0 .. shape[1] - 1) \X (0 .. shape[2] - 1) \X (0 .. shape[3] - 1)

\* row-major position of an index tuple
Offset(shape, idx) ==
    CASE Len(shape) = 1 -> idx[1]
      [] Len(shape) = 2 -> idx[1] * shape[2] + idx[2]
      [] Len(shape) = 3 -> (idx[1] * shape[2] + idx[2]) * shape[3] + idx[3]

Unravel(shape, k) ==
    CASE Len(shape) = 1 -> <<k>>
      [] Len(shape) = 2 -> <<k \div shape[2], k % shape[2]>>
      [] Len(shape) = 3 -> <<k \div (shape[2] * shape[3]), (k \div shape[3]) % shape[2], k % shape[3]>>

\* the tensor of the given shape whose element at idx is f(idx); the comparison
\* makes TLC tabulate the elements once instead of recomputing them at each use
Tensor(shape, f(_)) ==
    LET data == [idx \in Indices(shape) |-> f(idx)]
    IN [shape |-> shape, data |-> IF data = data THEN data ELSE data]

\* t.view(shape): the same elements in row-major order under another shape;
\* torch raises when the element counts differ
ViewOk(t, shape) == Prod(shape) = Numel(t)
View(t, shape) ==
    LET at(idx) == t.data[Unravel(t.shape, Offset(shape, idx))]
    IN Tensor(shape, at)

\* t[lo:hi] along dimension 0 (Python clips the range to the tensor)
Min(a, b) == IF a < b THEN a ELSE b
Max(a, b) == IF a > b THEN a ELSE b
Slice(t, lo, hi) ==
    LET n == Max(0, Min(hi, t.shape[1]) - Min(lo, t.shape[1]))
        shape == [t.shape EXCEPT ![1] = n]
        at(idx) == t.data[[idx EXCEPT ![1] = idx[1] + lo]]
    IN Tensor(shape, at)

\* list[lo:hi]
ListSlice(l, lo, hi) == SubSeq(l, Min(lo, Len(l)) + 1, Min(hi, Len(l)))

\* torch.cat(list) along dimension 0, of tensors that agree on the other dimensions
RECURSIVE Cat(_)
Cat(l) ==
    IF Len(l) = 1 THEN l[1]
    ELSE LET a == l[1]
             b == Cat(Tail(l))
             shape == [a.shape EXCEPT ![1] = a.shape[1] + b.shape[1]]
             at(idx) == IF idx[1] < a.shape[1] THEN a.data[idx]
                        ELSE b.data[[idx EXCEPT ![1] = idx[1] - a.shape[1]]]
         IN Tensor(shape, at)

\* torch.cat(..., dim=1) of two 2-D tensors with the same number of rows
CatCols(a, b) ==
    LET shape == <<a.shape[1], a.shape[2] + b.shape[2]>>
        at(idx) == IF idx[2] < a.shape[2] THEN a.data[idx]
                   ELSE b.data[<<idx[1], idx[2] - a.shape[2]>>]
    IN Tensor(shape, at)

RECURSIVE SumOver(_, _)
SumOver(S, f) ==
    IF S = {} THEN 0
    ELSE LET e == CHOOSE e \in S : TRUE IN f[e] + SumOver(S \ {e}, f)

-----------------------------------------------------------------------------
(* Generator.ignoreTokens *)

\* (a variant that indexes the second dimension whatever the rank)
SetTokenSecondDim(original, token) ==
    [original EXCEPT !.data =
        [idx \in DOMAIN original.data |->
            IF idx[2] = token THEN -MAXINT ELSE original.data[idx]]]

\* original[:,:,token] = -MAXINT   or   original[:,token] = -MAXINT
SetToken(original, token) ==
    IF Len(original.shape) = 3
    THEN [original EXCEPT !.data =
             [idx \in DOMAIN original.data |->
                 IF idx[3] = token THEN -MAXINT ELSE original.data[idx]]]
    ELSE [original EXCEPT !.data =
             [idx \in DOMAIN original.data |->
                 IF idx[2] = token THEN -MAXINT ELSE original.data[idx]]]

RECURSIVE ignoreLoop(_, _)
ignoreLoop(original, tokens) ==
    IF Len(tokens) = 0 THEN original
    ELSE ignoreLoop(SetToken(original, Head(tokens)), Tail(tokens))

\* ignored_tokens is None or <<l>>, l the list the loop iterates over
ignoreTokens(original, ignored_tokens) ==
    IF IsNone(ignored_tokens) THEN original
    ELSE ignoreLoop(original, Val(ignored_tokens))

-----------------------------------------------------------------------------
(* softmax and multinomial *)

RECURSIVE Pow2(_)
Pow2(n) == IF n = 0 THEN 1 ELSE 2 * Pow2(n - 1)

\* softmax over the last dimension of a 3-D score tensor: each entry's weight is
\* 2^(score - row minimum among the entries that do not underflow), 0 for an
\* entry more than EXP_UNDERFLOW below the row maximum
Softmax(t) ==
    LET V == t.shape[3]
        row(idx) == {t.data[<<idx[1], idx[2], v>>] : v \in 0 .. V - 1}
        rowmax(idx) == CHOOSE m \in row(idx) : \A s \in row(idx) : s <= m
        alive(idx) == {s \in row(idx) : s - rowmax(idx) >= -EXP_UNDERFLOW}
        rowmin(idx) == CHOOSE m \in alive(idx) : \A s \in alive(idx) : m <= s
        w(idx) == IF t.data[idx] \in alive(idx)
                  THEN Pow2(t.data[idx] - rowmin(idx)) ELSE 0
        wfun(idx) == [v \in 0 .. V - 1 |-> w(<<idx[1], idx[2], v>>)]
        p(idx) == [num |-> w(idx), den |-> SumOver(0 .. V - 1, wfun(idx))]
    IN Tensor(t.shape, p)

\* the tensors y_prob.view(-1, V).multinomial(num_samples=1).view(shape) can
\* return: at every (row, position) a vocabulary index of nonzero probability
Multinomial(y_prob) ==
    LET shape == <<y_prob.shape[1], y_prob.shape[2]>>
        V == y_prob.shape[3]
    IN {[shape |-> shape, data |-> d] :
          d \in {e \in [Indices(shape) -> 0 .. V - 1] :
                   \A idx \in Indices(shape) :
                       y_prob.data[<<idx[1], idx[2], e[idx]>>].num > 0}}

-----------------------------------------------------------------------------
(* GeneratorLoss *)

\* torch.log(torch.clamp(p, min=1e-20, max=1.0)), in thousandths
LogClamp(p) ==
    IF p.num = 0 THEN LOG_FLOOR
    ELSE IF p.num >= p.den THEN 0
    ELSE LnMilli[p.num] - LnMilli[p.den]

createOneHotDummy(dim) ==
    LET zero(idx) == 0 IN Tensor(dim, zero)

\* one_hot.scatter_(1, x1, 1): row i gets a 1 at column x1[i, 0]
Scatter(one_hot, x1) ==
    [one_hot EXCEPT !.data =
        [idx \in DOMAIN one_hot.data |->
            IF idx[2] = x1.data[<<idx[1], 0>>] THEN 1 ELSE one_hot.data[idx]]]

GeneratorLoss_forward(prediction, x, rewards) ==
    LET x1 == View(x, <<Numel(x), 1>>)
        pred1 == View(prediction, <<Numel(prediction) \div VOCAB_SIZE, VOCAB_SIZE>>)
        x2 == Scatter(createOneHotDummy(<<x1.shape[1], pred1.shape[2]>>), x1)
        pred2(idx) == LogClamp(pred1.data[idx])
        prod(idx) == x2.data[idx] * pred2(idx)
        prodrow(i) == [v \in 0 .. pred1.shape[2] - 1 |-> prod(<<i, v>>)]
        reduced_prod(i) == SumOver(0 .. pred1.shape[2] - 1, prodrow(i))
        r1 == View(rewards, <<Numel(rewards)>>)
        rewards_prod == [i \in 0 .. x1.shape[1] - 1 |-> reduced_prod(i) * r1.data[<<i>>]]
        generator_loss == SumOver(0 .. x1.shape[1] - 1, rewards_prod)
    IN generator_loss

-----------------------------------------------------------------------------
(* The objects *)

\* Generator.__init__ with a given pretrain_model; the pretrained LSTM comes with
\* the hidden state its own training left behind
NewGenerator(start_token, ignored_tokens) ==
    [start_token |-> start_token,
     ignored_tokens |-> ignored_tokens,
     y_prob |-> None, y_output |-> None, loss_variable |-> None,
     pretrain_model |-> [hidden |-> [rows |-> 0, fresh |-> FALSE],
                         tag_space |-> None,
                         params |-> 0,
                         grad |-> None]]

Vocab == 0 .. VOCAB_SIZE - 1

-----------------------------------------------------------------------------
(* Scenario: one call of ignoreTokens on a 2-D or 3-D score tensor *)

Positions == {1, 2}
ScoreRowKinds == {"flat", "ramp"}
ScoreRow(kind, v) == IF kind = "flat" THEN 0 ELSE v % 2

ScoreTensors2D(B, V) ==
    {[shape |-> <<B, V>>,
      data |-> [idx \in Indices(<<B, V>>) |-> ScoreRow(k[<<idx[1]>>], idx[2])]] :
        k \in [Indices(<<B>>) -> ScoreRowKinds]}

ScoreTensors3D(B, T, V) ==
    {[shape |-> <<B, T, V>>,
      data |-> [idx \in Indices(<<B, T, V>>) |-> ScoreRow(k[<<idx[1], idx[2]>>], idx[3])]] :
        k \in [Indices(<<B, T>>) -> ScoreRowKinds]}

ScoreTensors(V) ==
    UNION {ScoreTensors2D(B, V) : B \in 1 .. MaxBatch}
    \cup UNION {ScoreTensors3D(B, T, V) : B \in 1 .. MaxBatch, T \in Positions}

\* None, and the lists of at most two vocabulary indices (repeats included)
IgnoreSets(V) ==
    {None} \cup {Some(l) : l \in UNION {[1 .. n -> 0 .. V - 1] : n \in 0 .. 2}}

InitMask ==
    /\ pc = "ignoreTokens"
    /\ VOCAB_SIZE = 3
    /\ SEQ_LENGTH = 2
    /\ model = NewGenerator(0, None)
    /\ \E original \in ScoreTensors(3), ignored_tokens \in IgnoreSets(3) :
          /\ call = [original |-> original, ignored_tokens |-> ignored_tokens]
          /\ hist = [original |-> original]
    /\ result = None

\* the assignment is in place: the caller's tensor is the one returned
IgnoreTokensCall ==
    /\ pc = "ignoreTokens"
    /\ LET r == ignoreTokens(call.original, call.ignored_tokens)
       IN /\ call' = [call EXCEPT !.original = r]
          /\ result' = Some(r)
    /\ pc' = "done"
    /\ UNCHANGED <<VOCAB_SIZE, SEQ_LENGTH, model, hist>>

NextMask == IgnoreTokensCall

SpecMask == InitMask /\ [][NextMask]_vars

-----------------------------------------------------------------------------
(* Scenario: one call of GeneratorLoss.forward *)

LossVocabs == {3, 5}
LossShapes == {<<1, 1>>, <<1, 2>>, <<2, 1>>}
Rewards == {-1, 0, 1}
ProbRowKinds == {"uniform", "first_masked", "last_certain"}
ProbRow(kind, V, v) ==
    CASE kind = "uniform" -> [num |-> 1, den |-> V]
      [] kind = "first_masked" -> [num |-> IF v = 0 THEN 0 ELSE 1, den |-> V - 1]
      [] kind = "last_certain" -> [num |-> IF v = V - 1 THEN 1 ELSE 0, den |-> 1]

ProbTensors(shape, V) ==
    {[shape |-> shape \o <<V>>,
      data |-> [idx \in Indices(shape \o <<V>>) |-> ProbRow(k[<<idx[1], idx[2]>>], V, idx[3])]] :
        k \in [Indices(shape) -> ProbRowKinds]}

TensorsOver(shape, S) == {[shape |-> shape, data |-> d] : d \in [Indices(shape) -> S]}

InitLoss ==
    /\ pc = "GeneratorLoss"
    /\ VOCAB_SIZE \in LossVocabs
    /\ SEQ_LENGTH = 2
    /\ model = NewGenerator(0, None)
    /\ \E shape \in LossShapes :
         \E prediction \in ProbTensors(shape, VOCAB_SIZE),
            x \in TensorsOver(shape, Vocab),
            rewards \in TensorsOver(shape, Rewards) :
              call = [prediction |-> prediction, x |-> x, rewards |-> rewards]
    /\ hist = None
    /\ result = None

GeneratorLossCall ==
    /\ pc = "GeneratorLoss"
    /\ result' = Some(GeneratorLoss_forward(call.prediction, call.x, call.rewards))
    /\ pc' = "done"
    /\ UNCHANGED <<VOCAB_SIZE, SEQ_LENGTH, model, call, hist>>

NextLoss == GeneratorLossCall

SpecLoss == InitLoss /\ [][NextLoss]_vars

-----------------------------------------------------------------------------
(* pretrain_model: the LSTM of lstmCore.py, as generator.py uses it *)

\* init_hidden(n): a fresh state for n rows
init_hidden(n) == [rows |-> n, fresh |-> TRUE]

\* the score the LSTM gives vocabulary entry v after input token tok
Logit(params, tok, v) == IF v = (tok + params) % VOCAB_SIZE THEN 1 ELSE 0

\* pretrain_model(x, sentence_lengths): leaves the scores in tag_space (rows x
\* positions x VOCAB_SIZE) and the hidden state advanced over x
PretrainForward(pm, x) ==
    LET shape == <<x.shape[1], x.shape[2], VOCAB_SIZE>>
        score(idx) == Logit(pm.params, x.data[<<idx[1], idx[2]>>], idx[3])
    IN [pm EXCEPT !.tag_space = Some(Tensor(shape, score)),
                  !.hidden = [rows |-> pm.hidden.rows, fresh |-> FALSE]]

-----------------------------------------------------------------------------
(* Scenario: one call of Generator.generate *)

\* (a variant that runs the loop once more)
LoopStepsOneMore(seq_length) == seq_length

\* for i in range(SEQ_LENGTH-1)
LoopSteps(seq_length) == seq_length - 1

GenStartArgs == {None, Some(1)}
GenIgnoreArgs == {None, Some(<<1>>), Some(<<0, 1, 2>>)}
GenConfiguredIgnore == {None, Some(<<0>>)}

InitGen ==
    /\ pc = "generate"
    /\ VOCAB_SIZE = 3
    /\ SEQ_LENGTH \in 1 .. MaxSeqLength
    /\ \E ignored_tokens \in GenConfiguredIgnore : model = NewGenerator(0, ignored_tokens)
    /\ \E start_token \in GenStartArgs, ignored_tokens \in GenIgnoreArgs,
          batch_size \in 1 .. MaxBatch :
          call = [args |-> [start_token |-> start_token,
                            ignored_tokens |-> ignored_tokens,
                            batch_size |-> batch_size],
                  start_token |-> start_token,
                  ignored_tokens |-> ignored_tokens,
                  y |-> None, y_all_sample |-> None, i |-> 0]
    /\ hist = [fed |-> <<>>, masked |-> <<>>]
    /\ result = None

\* generate, lines 56-60, and generate_LSTMCore up to the loop, lines 64-67
GenerateEnter ==
    /\ pc = "generate"
    /\ LET start_token == IF IsNone(call.start_token) THEN Some(model.start_token)
                          ELSE call.start_token
           ignored_tokens == IF IsNone(call.ignored_tokens) THEN model.ignored_tokens
                             ELSE call.ignored_tokens
           const(idx) == Val(start_token)
           y == Tensor(<<call.args.batch_size>>, const)
       IN /\ call' = [call EXCEPT !.start_token = start_token,
                                  !.ignored_tokens = ignored_tokens,
                                  !.y = Some(y),
                                  !.y_all_sample = Some(View(y, <<Numel(y), 1>>)),
                                  !.i = 0]
          /\ model' = [model EXCEPT !.pretrain_model.hidden = init_hidden(y.shape[1])]
    /\ pc' = "generate_loop"
    /\ UNCHANGED <<VOCAB_SIZE, SEQ_LENGTH, result, hist>>

\* one iteration of the loop, lines 69-75
GenerateStep ==
    /\ pc = "generate_loop"
    /\ call.i < LoopSteps(SEQ_LENGTH)
    /\ LET x == View(Val(call.y), <<Numel(Val(call.y)), 1>>)
           pm == PretrainForward(model.pretrain_model, x)
           masked == ignoreTokens(Val(pm.tag_space), call.ignored_tokens)
           y_prob == Softmax(masked)
       IN /\ \E y \in Multinomial(y_prob) :
                call' = [call EXCEPT !.y = Some(y),
                                     !.y_all_sample = Some(CatCols(Val(call.y_all_sample), y)),
                                     !.i = call.i + 1]
          /\ model' = [model EXCEPT !.pretrain_model = [pm EXCEPT !.tag_space = Some(masked)]]
          /\ hist' = [hist EXCEPT !.fed = Append(hist.fed, x),
                                  !.masked = Append(hist.masked, call.ignored_tokens)]
    /\ UNCHANGED <<pc, VOCAB_SIZE, SEQ_LENGTH, result>>

\* the loop is over: return y_all_sample, lines 76 and 61
GenerateReturn ==
    /\ pc = "generate_loop"
    /\ ~(call.i < LoopSteps(SEQ_LENGTH))
    /\ result' = call.y_all_sample
    /\ pc' = "done"
    /\ UNCHANGED <<VOCAB_SIZE, SEQ_LENGTH, model, call, hist>>

NextGen == GenerateEnter \/ GenerateStep \/ GenerateReturn

SpecGen == InitGen /\ [][NextGen]_vars

-----------------------------------------------------------------------------
(* Generator.forward *)

\* d log(p) / d params of the LSTM, wherever the clamp lets the gradient through
DLOGP == 1

\* (a variant that leaves the rewards out of the gradient)
LossGradUnweighted(prediction, x, rewards) ==
    LET p(idx) == prediction.data[<<idx[1], idx[2], x.data[idx]>>]
        term == [idx \in Indices(x.shape) |->
                    IF p(idx).num > 0 /\ p(idx).num <= p(idx).den THEN DLOGP ELSE 0]
    IN SumOver(Indices(x.shape), term)

\* the gradient of the loss with respect to the parameters (what backward()
\* adds to their .grad): by the chain rule through lines 118-122, the sum over
\* the positions of reward * d log(clamp(p)) / d params, p the probability
\* of the reference token; clamp passes the gradient for 1e-20 <= p <= 1
LossGrad(prediction, x, rewards) ==
    LET p(idx) == prediction.data[<<idx[1], idx[2], x.data[idx]>>]
        r1 == View(rewards, <<Numel(rewards)>>)
        term == [idx \in Indices(x.shape) |->
                    r1.data[<<Offset(x.shape, idx)>>]
                      * (IF p(idx).num > 0 /\ p(idx).num <= p(idx).den THEN DLOGP ELSE 0)]
    IN SumOver(Indices(x.shape), term)

\* lines 37-38
ForwardIgnored(gen, ignored_tokens) ==
    IF IsNone(ignored_tokens) THEN gen.ignored_tokens ELSE ignored_tokens

\* lines 39-42: the scores, masked in place in pretrain_model.tag_space, and y_prob
ForwardProb(gen, x, ignored_tokens) ==
    LET pm == PretrainForward(gen.pretrain_model, x)
        y_pred == ignoreTokens(Val(pm.tag_space), ForwardIgnored(gen, ignored_tokens))
    IN [gen EXCEPT !.pretrain_model = [pm EXCEPT !.tag_space = Some(y_pred)],
                   !.y_prob = Some(Softmax(y_pred))]

\* y_prob.sum(dim=2)
SumDim2(y_prob) ==
    LET nums(idx) == [v \in 0 .. y_prob.shape[3] - 1 |-> y_prob.data[<<idx[1], idx[2], v>>].num]
        s(idx) == SumOver(0 .. y_prob.shape[3] - 1, nums(idx))
                     \div y_prob.data[<<idx[1], idx[2], 0>>].den
    IN Tensor(<<y_prob.shape[1], y_prob.shape[2]>>, s)

\* forward(x, rewards, ignored_tokens, sentence_lengths): the Generator objects
\* the call can leave, one for each tensor multinomial can return (the value
\* returned is the object's y_output).  The loss variable is its value and its
\* gradient with respect to the parameters.
forward(gen, x, rewards, ignored_tokens, sentence_lengths) ==
    LET g == ForwardProb(gen, x, ignored_tokens)
        y_prob == Val(g.y_prob)
        r == IF IsNone(rewards) THEN SumDim2(y_prob) ELSE Val(rewards)
        loss_variable == [value |-> GeneratorLoss_forward(y_prob, x, r),
                          dparams |-> LossGrad(y_prob, x, r)]
        after == [g EXCEPT !.loss_variable = Some(loss_variable)]
    IN {[after EXCEPT !.y_output = Some(y_output)] : y_output \in Multinomial(y_prob)}

-----------------------------------------------------------------------------
(* Scenario: one call of train_generator *)

\* (a variant that resets the hidden state after the forward pass)
BatchOrderForwardFirst ==
    <<"forward", "init_hidden", "zero_grad", "backward", "step", "append">>

\* the statements of the while body after the slices, lines 155-165, in order
BatchOrder == <<"init_hidden", "forward", "zero_grad", "backward", "step", "append">>

After(p) == BatchOrder[(CHOOSE i \in 1 .. Len(BatchOrder) : BatchOrder[i] = p) + 1]

\* while pointer + batch_size <= len(x)
LoopCond(pointer, batch_size, n) == pointer + batch_size <= n

\* (a variant that advances by one row)
NextPointerByOne(pointer, batch_size) == pointer + 1

\* pointer = pointer + batch_size
NextPointer(pointer, batch_size) == pointer + batch_size

\* optimizer.step() of torch.optim.SGD(params, lr=0.01): no momentum, no decay
SGDStep(params, grad) == params - LR_PERCENT * grad

\* (a variant that keeps the two result lists across epochs)
EpochResetKeepLists(c) ==
    [c EXCEPT !.pointer = 0, !.epoch_loss = <<>>]

\* lines 147-150: what the head of each epoch resets
EpochReset(c) ==
    [c EXCEPT !.pointer = 0, !.y_prob_all = <<>>, !.y_output_all = <<>>, !.epoch_loss = <<>>]

TrainCols == {1, 2}
TrainWideRows == {1, 2}      \* the numbers of rows tried with more than one column
XInput(N, L) ==
    LET tok(idx) == (idx[1] + idx[2]) % 3 IN Tensor(<<N, L>>, tok)
Zeros(shape) == LET z(idx) == 0 IN Tensor(shape, z)
Ones(shape) == LET o(idx) == 1 IN Tensor(shape, o)
RowRewards(shape) == LET r(idx) == idx[1] + 1 IN Tensor(shape, r)
RewardKinds == {"none", "zeros", "rows"}

InitTrain ==
    /\ pc = "train_generator"
    /\ VOCAB_SIZE = 3
    /\ SEQ_LENGTH \in TrainCols
    /\ \E ignored_tokens \in {None, Some(<<0>>)} : model = NewGenerator(0, ignored_tokens)
    /\ \E N \in 1 .. MaxRows, batch_size \in 1 .. MaxBatch,
          iter_n_gen \in {None} \cup {Some(e) : e \in 1 .. MaxEpoch},
          flat \in BOOLEAN, rewards \in RewardKinds, lengths \in BOOLEAN :
          /\ flat => N = 1
          /\ SEQ_LENGTH > 1 => N \in TrainWideRows
          /\ LET x2 == XInput(N, SEQ_LENGTH)
                 x == IF flat THEN View(x2, <<SEQ_LENGTH>>) ELSE x2
                 reward == CASE rewards = "none" -> None
                             [] rewards = "zeros" -> Some(Zeros(x2.shape))
                             [] rewards = "rows" -> Some(RowRewards(x2.shape))
                 sentence_lengths ==
                     IF lengths THEN Some([i \in 1 .. N - 1 |-> 1 + (i % SEQ_LENGTH)])
                     ELSE None
             IN call = [args |-> [x |-> x, reward |-> reward, iter_n_gen |-> iter_n_gen,
                                  batch_size |-> batch_size,
                                  sentence_lengths |-> sentence_lengths],
                        x |-> None, reward |-> None, sentence_lengths |-> None,
                        iter_n_gen |-> None, batch_size |-> batch_size,
                        epoch |-> 0, pointer |-> 0,
                        y_prob_all |-> None, y_output_all |-> None, epoch_loss |-> None,
                        x_batch |-> None, r_batch |-> None, s_length |-> None,
                        y_output |-> None, y_prob |-> None, loss_var |-> None,
                        log |-> <<>>]
    /\ hist = [batches |-> <<>>, steps |-> <<>>, opt_steps |-> 0,
               epoch_out |-> <<>>, params0 |-> model.pretrain_model.params,
               reset |-> None]
    /\ result = None

\* lines 130-145
TrainEnter ==
    /\ pc = "train_generator"
    /\ LET a == call.args
           x == IF Len(a.x.shape) = 1 THEN View(a.x, <<1, a.x.shape[1]>>) ELSE a.x
           given == IF IsNone(a.sentence_lengths)
                    THEN [i \in 1 .. x.shape[1] |-> x.shape[2]]
                    ELSE Val(a.sentence_lengths)
           sentence_lengths ==
               IF Len(given) < x.shape[1]
               THEN given \o [i \in 1 .. x.shape[1] - Len(given) |-> x.shape[2]]
               ELSE given
           reward == IF IsNone(a.reward) THEN Ones(x.shape) ELSE Val(a.reward)
           iter_n_gen == IF IsNone(a.iter_n_gen) THEN GEN_NUM_EPOCH ELSE Val(a.iter_n_gen)
       IN call' = [call EXCEPT !.x = x, !.sentence_lengths = sentence_lengths,
                               !.reward = reward, !.iter_n_gen = iter_n_gen,
                               !.epoch = 0,
                               !.log = <<[line |-> "training generator"]>>]
    /\ pc' = "for_epoch"
    /\ UNCHANGED <<VOCAB_SIZE, SEQ_LENGTH, model, result, hist>>

\* for epoch in range(iter_n_gen): the next epoch begins, lines 146-150
ForEpoch ==
    /\ pc = "for_epoch"
    /\ call.epoch < call.iter_n_gen
    /\ call' = EpochReset(call)
    /\ hist' = [hist EXCEPT !.epoch_out = <<>>]
    /\ pc' = "while_batch"
    /\ UNCHANGED <<VOCAB_SIZE, SEQ_LENGTH, model, result>>

\* the while condition holds: the three slices, lines 151-154
WhileBatch ==
    /\ pc = "while_batch"
    /\ LoopCond(call.pointer, call.batch_size, call.x.shape[1])
    /\ call' = [call EXCEPT
          !.x_batch = Slice(call.x, call.pointer, call.pointer + call.batch_size),
          !.r_batch = Slice(call.reward, call.pointer, call.pointer + call.batch_size),
          !.s_length = ListSlice(call.sentence_lengths, call.pointer,
                                 call.pointer + call.batch_size)]
    /\ hist' = [hist EXCEPT !.steps = <<>>]
    /\ pc' = BatchOrder[1]
    /\ UNCHANGED <<VOCAB_SIZE, SEQ_LENGTH, model, result>>

\* line 155
InitHidden ==
    /\ pc = "init_hidden"
    /\ model' = [model EXCEPT !.pretrain_model.hidden = init_hidden(call.batch_size)]
    /\ hist' = [hist EXCEPT !.steps = Append(hist.steps, "init_hidden"),
                            !.reset = Some(model.pretrain_model.params)]
    /\ pc' = After("init_hidden")
    /\ UNCHANGED <<VOCAB_SIZE, SEQ_LENGTH, call, result>>

\* y_output = model(x_batch, r_batch, s_length), lines 156-158: the third
\* positional parameter of forward is ignored_tokens
Forward ==
    /\ pc = "forward"
    /\ \E after \in forward(model, call.x_batch, Some(call.r_batch),
                              Some(call.s_length), None) :
            /\ model' = after
            /\ call' = [call EXCEPT !.y_output = Val(after.y_output),
                                    !.y_prob = Val(after.y_prob),
                                    !.loss_var = Val(after.loss_variable)]
            /\ hist' = [hist EXCEPT
                  !.steps = Append(hist.steps, "forward"),
                  !.batches = Append(hist.batches,
                      [epoch |-> call.epoch,
                       x |-> call.x_batch, rewards |-> call.r_batch,
                       third |-> call.s_length,
                       ignored_tokens |-> ForwardIgnored(model, Some(call.s_length)),
                       sentence_lengths |-> None,
                       hidden |-> model.pretrain_model.hidden,
                       params |-> model.pretrain_model.params])]
    /\ pc' = After("forward")
    /\ UNCHANGED <<VOCAB_SIZE, SEQ_LENGTH, result>>

\* optimizer.zero_grad(), line 159
ZeroGrad ==
    /\ pc = "zero_grad"
    /\ model' = [model EXCEPT !.pretrain_model.grad =
                    IF IsNone(model.pretrain_model.grad) THEN None ELSE Some(0)]
    /\ hist' = [hist EXCEPT !.steps = Append(hist.steps, "zero_grad")]
    /\ pc' = After("zero_grad")
    /\ UNCHANGED <<VOCAB_SIZE, SEQ_LENGTH, call, result>>

\* loss_var.backward(), line 160: gradients accumulate
Backward ==
    /\ pc = "backward"
    /\ LET old == IF IsNone(model.pretrain_model.grad) THEN 0
                  ELSE Val(model.pretrain_model.grad)
       IN model' = [model EXCEPT !.pretrain_model.grad = Some(old + call.loss_var.dparams)]
    /\ hist' = [hist EXCEPT !.steps = Append(hist.steps, "backward")]
    /\ pc' = After("backward")
    /\ UNCHANGED <<VOCAB_SIZE, SEQ_LENGTH, call, result>>

\* optimizer.step(), line 161: parameters without a gradient are skipped
Step ==
    /\ pc = "step"
    /\ model' = [model EXCEPT !.pretrain_model.params =
                    IF IsNone(model.pretrain_model.grad) THEN @
                    ELSE SGDStep(@, Val(model.pretrain_model.grad))]
    /\ hist' = [hist EXCEPT !.steps = Append(hist.steps, "step"),
                            !.opt_steps = hist.opt_steps + 1]
    /\ pc' = After("step")
    /\ UNCHANGED <<VOCAB_SIZE, SEQ_LENGTH, call, result>>

\* lines 162-165
AppendBatch ==
    /\ pc = "append"
    /\ call' = [call EXCEPT !.y_prob_all = Append(@, call.y_prob),
                            !.y_output_all = Append(@, call.y_output),
                            !.epoch_loss = Append(@, call.loss_var.value),
                            !.pointer = NextPointer(call.pointer, call.batch_size)]
    /\ hist' = [hist EXCEPT !.epoch_out = Append(@, [y_prob |-> call.y_prob,
                                                     y_output |-> call.y_output])]
    /\ pc' = "while_batch"
    /\ UNCHANGED <<VOCAB_SIZE, SEQ_LENGTH, model, result>>

\* the while loop is over: the epoch's log line, line 166
EpochEnd ==
    /\ pc = "while_batch"
    /\ ~LoopCond(call.pointer, call.batch_size, call.x.shape[1])
    /\ Len(call.epoch_loss) # 0
    /\ call' = [call EXCEPT
          !.log = Append(@, [line |-> "epoch", epoch |-> call.epoch,
                             sum |-> SumOver(DOMAIN call.epoch_loss, call.epoch_loss),
                             len |-> Len(call.epoch_loss)]),
          !.epoch = call.epoch + 1]
    /\ pc' = "for_epoch"
    /\ UNCHANGED <<VOCAB_SIZE, SEQ_LENGTH, model, result, hist>>

\* line 166 with no batch in the epoch: sum([]) / len([]) divides by zero
EpochEndRaise ==
    /\ pc = "while_batch"
    /\ ~LoopCond(call.pointer, call.batch_size, call.x.shape[1])
    /\ Len(call.epoch_loss) = 0
    /\ result' = Some([raised |-> "ZeroDivisionError"])
    /\ pc' = "raised"
    /\ UNCHANGED <<VOCAB_SIZE, SEQ_LENGTH, model, call, hist>>

\* lines 167-168
TrainReturn ==
    /\ pc = "for_epoch"
    /\ ~(call.epoch < call.iter_n_gen)
    /\ ViewOk(Cat(call.y_output_all), call.x.shape)
    /\ call' = [call EXCEPT !.log = Append(@, [line |-> "close"])]
    /\ result' = Some([model |-> model,
                       y_prob_all |-> Cat(call.y_prob_all),
                       y_output_all |-> View(Cat(call.y_output_all), call.x.shape)])
    /\ pc' = "done"
    /\ UNCHANGED <<VOCAB_SIZE, SEQ_LENGTH, model, hist>>

\* line 168 when the batches do not cover x: view raises on the element count
TrainReturnRaise ==
    /\ pc = "for_epoch"
    /\ ~(call.epoch < call.iter_n_gen)
    /\ ~ViewOk(Cat(call.y_output_all), call.x.shape)
    /\ call' = [call EXCEPT !.log = Append(@, [line |-> "close"])]
    /\ result' = Some([raised |-> "RuntimeError"])
    /\ pc' = "raised"
    /\ UNCHANGED <<VOCAB_SIZE, SEQ_LENGTH, model, hist>>

NextTrain ==
    \/ TrainEnter \/ ForEpoch \/ WhileBatch \/ InitHidden \/ Forward \/ ZeroGrad
    \/ Backward \/ Step \/ AppendBatch \/ EpochEnd \/ EpochEndRaise
    \/ TrainReturn \/ TrainReturnRaise

SpecTrain == InitTrain /\ [][NextTrain]_vars

\* the scenarios together
Init == InitTrain \/ InitGen \/ InitMask \/ InitLoss
Next == NextTrain \/ NextGen \/ NextMask \/ NextLoss
Spec == Init /\ [][Next]_vars

-----------------------------------------------------------------------------
(* Properties *)

Elements(l) == {l[i] : i \in DOMAIN l}
Last(l) == l[Len(l)]

\* C1: GeneratorLoss.forward returns the NEGATIVE of the sum, over all
\* batch/position entries, of reward * log(clamp(prediction at the reference
\* token)); with all rewards nonnegative the result is never negative.
\* (checked under SpecLoss)
C1_LossIsNegatedSum ==
    pc = "done" =>
        LET cells == Indices(call.x.shape)
            term == [idx \in cells |->
                        call.rewards.data[idx]
                          * LogClamp(call.prediction.data[<<idx[1], idx[2], call.x.data[idx]>>])]
        IN /\ Val(result) = -SumOver(cells, term)
           /\ (\A idx \in cells : call.rewards.data[idx] >= 0) => Val(result) >= 0

\* what the code returns instead: the sum itself, not negated
LossIsPlainSum ==
    pc = "done" =>
        LET cells == Indices(call.x.shape)
            term == [idx \in cells |->
                        call.rewards.data[idx]
                          * LogClamp(call.prediction.data[<<idx[1], idx[2], call.x.data[idx]>>])]
        IN Val(result) = SumOver(cells, term)

\* C2: every token sampled by forward lies in [0, VOCAB_SIZE) and is in no
\* ignore set that was given, be it the generator's configured ignored_tokens;
\* also in the forward calls train_generator makes.  (checked under SpecTrain)
C2_SampledNeverIgnored ==
    pc = "zero_grad" =>
        LET y_output == Val(model.y_output)
        IN \A idx \in Indices(y_output.shape) :
              /\ y_output.data[idx] \in 0 .. VOCAB_SIZE - 1
              /\ ~IsNone(model.ignored_tokens)
                    => y_output.data[idx] \notin Elements(Val(model.ignored_tokens))

\* the same for generate, with the set in force (the argument, else the
\* configured one): every token after position 0 is outside it
GenerateNeverIgnored ==
    pc = "done" =>
        LET out == Val(result)
        IN \A idx \in Indices(out.shape) :
              idx[2] > 0 =>
                 /\ out.data[idx] \in 0 .. VOCAB_SIZE - 1
                 /\ ~IsNone(call.ignored_tokens)
                       => out.data[idx] \notin Elements(Val(call.ignored_tokens))

\* C3: generate returns batch_size rows of SEQ_LENGTH columns, column 0 being
\* the start token (the argument, or the configured one when the argument is
\* None); the loop adds one column per step for SEQ_LENGTH-1 steps, and each
\* step feeds the previous step's sample (the start token at step 0).
\* (checked under SpecGen)
C3_GenerateShape ==
    LET B == call.args.batch_size
        start == IF IsNone(call.args.start_token) THEN model.start_token
                 ELSE Val(call.args.start_token)
    IN /\ pc = "generate_loop" =>
            /\ Val(call.y_all_sample).shape = <<B, call.i + 1>>
            /\ Len(hist.fed) = call.i
            /\ call.i <= SEQ_LENGTH - 1
       /\ pc = "done" =>
            LET out == Val(result)
            IN /\ out.shape = <<B, SEQ_LENGTH>>
               /\ \A b \in 0 .. B - 1 : out.data[<<b, 0>>] = start
               /\ Len(hist.fed) = SEQ_LENGTH - 1
               /\ \A s \in 1 .. SEQ_LENGTH - 1 :
                     /\ hist.fed[s].shape = <<B, 1>>
                     /\ \A b \in 0 .. B - 1 :
                           hist.fed[s].data[<<b, 0>>] = out.data[<<b, s - 1>>]

C3_Witness ==
    /\ pc = "done"
    /\ SEQ_LENGTH = 3
    /\ call.args.batch_size = 2
    /\ IsNone(call.args.start_token)
    /\ Val(result).data[<<0, 1>>] # Val(result).data[<<1, 1>>]
    /\ Val(result).data[<<0, 1>>] # model.start_token

\* C7: ignoreTokens(original, S) on a 2-D or 3-D score tensor sets the entry at
\* every vocabulary index in S to -MAXINT for all batch/position indices,
\* leaves every other entry as it was, and returns that (the caller's) tensor;
\* with S None or empty the returned tensor equals the input.
\* (checked under SpecMask)
C7_IgnoreTokensFrame ==
    pc = "done" =>
        LET out == Val(result)
            S == IF IsNone(call.ignored_tokens) THEN {}
                 ELSE Elements(Val(call.ignored_tokens))
        IN /\ out.shape = hist.original.shape
           /\ \A idx \in Indices(out.shape) :
                 out.data[idx] = IF Last(idx) \in S THEN -MAXINT
                                 ELSE hist.original.data[idx]
           /\ out = call.original
           /\ S = {} => out = hist.original

Started == pc # "train_generator"
Rows == call.x.shape[1]
FullBatches == Rows \div call.batch_size
InBatch == pc \in {"init_hidden", "forward", "zero_grad", "backward", "step", "append"}

\* C4: in every epoch the batches are the floor(N/B) consecutive row ranges
\* [k*B, (k+1)*B), k increasing; the trailing N mod B rows are never passed to
\* the model; rows, rewards and sentence lengths are sliced with the same
\* range; epochs * floor(N/B) forward passes and optimizer steps happen in all.
\* (checked under SpecTrain)
C4_BatchesAreFullRanges ==
    Started =>
        LET B == call.batch_size
            L == call.x.shape[2]
        IN /\ \A n \in 1 .. Len(hist.batches) :
                 LET b == hist.batches[n]
                     k == (n - 1) % FullBatches
                 IN /\ FullBatches > 0
                    /\ b.epoch = (n - 1) \div FullBatches
                    /\ b.epoch < call.iter_n_gen
                    /\ b.x.shape = <<B, L>>
                    /\ b.rewards.shape = <<B, L>>
                    /\ Len(b.third) = B
                    /\ \A i \in 0 .. B - 1 :
                          /\ k * B + i < Rows
                          /\ b.third[i + 1] = call.sentence_lengths[k * B + i + 1]
                          /\ \A c \in 0 .. L - 1 :
                                /\ b.x.data[<<i, c>>] = call.x.data[<<k * B + i, c>>]
                                /\ b.rewards.data[<<i, c>>] = call.reward.data[<<k * B + i, c>>]
           /\ pc \in {"done", "raised"} =>
                 /\ Len(hist.batches) = call.iter_n_gen * FullBatches
                 /\ hist.opt_steps = call.iter_n_gen * FullBatches

C4_Witness ==
    /\ pc = "raised"
    /\ Rows = 3
    /\ call.batch_size = 2
    /\ call.iter_n_gen = 2
    /\ call.args.reward = Some(RowRewards(call.x.shape))
    /\ ~IsNone(call.args.sentence_lengths)
    /\ Len(hist.batches) = 2
    /\ hist.opt_steps = 2

\* C5: train_generator returns the model together with the concatenation, in
\* batch order, of the probability tensors and of the sampled-output tensors
\* of exactly the batches of the final epoch; the accumulators are emptied at
\* the start of each epoch, so they never hold a result of an earlier epoch.
\* (checked under SpecTrain)
C5_ReturnsFinalEpoch ==
    LET B == call.batch_size
    IN /\ (InBatch \/ pc = "while_batch") =>
            /\ Len(call.y_output_all) = Len(hist.epoch_out)
            /\ Len(call.y_prob_all) = Len(hist.epoch_out)
            /\ Len(hist.epoch_out) <= FullBatches
            /\ \A k \in 1 .. Len(hist.epoch_out) :
                  /\ call.y_output_all[k] = hist.epoch_out[k].y_output
                  /\ call.y_prob_all[k] = hist.epoch_out[k].y_prob
       /\ pc = "done" =>
            LET ret == Val(result)
            IN /\ ret.model = model
               /\ Len(hist.epoch_out) = FullBatches
               /\ ret.y_output_all.shape = <<FullBatches * B, call.x.shape[2]>>
               /\ ret.y_prob_all.shape = <<FullBatches * B, call.x.shape[2], VOCAB_SIZE>>
               /\ \A idx \in Indices(ret.y_output_all.shape) :
                     ret.y_output_all.data[idx] =
                        hist.epoch_out[(idx[1] \div B) + 1].y_output.data[<<idx[1] % B, idx[2]>>]
               /\ \A idx \in Indices(ret.y_prob_all.shape) :
                     ret.y_prob_all.data[idx] =
                        hist.epoch_out[(idx[1] \div B) + 1].y_prob.data[<<idx[1] % B, idx[2], idx[3]>>]

C5_Witness ==
    /\ pc = "done"
    /\ call.iter_n_gen = 2
    /\ FullBatches = 2
    /\ call.batch_size = 1
    /\ Val(result).y_output_all.data[<<0, 0>>] # Val(result).y_output_all.data[<<1, 0>>]

\* C6: with a reward tensor that is zero everywhere, every batch's loss is 0,
\* its gradient is 0, and the SGD step changes nothing: the parameters keep
\* the value they had before the call, through the epoch and after it.
\* (checked under SpecTrain)
C6_ZeroRewardKeepsParams ==
    (Started /\ call.args.reward = Some(Zeros(call.x.shape))) =>
        /\ model.pretrain_model.params = hist.params0
        /\ model.pretrain_model.grad \in {None, Some(0)}
        /\ pc \in {"zero_grad", "backward", "step", "append"} =>
              /\ call.loss_var.value = 0
              /\ call.loss_var.dparams = 0
        /\ pc \in {"while_batch", "for_epoch", "done", "raised"} =>
              \A k \in 1 .. Len(call.epoch_loss) : call.epoch_loss[k] = 0

C6_Witness ==
    /\ pc = "for_epoch"
    /\ call.epoch = 1
    /\ call.args.reward = Some(Zeros(call.x.shape))
    /\ hist.opt_steps = 3
    /\ model.pretrain_model.grad = Some(0)

\* with the default reward of 1 the same run moves the parameters
OnesRewardMovesParams ==
    (pc = "done" /\ IsNone(call.args.reward)) =>
        model.pretrain_model.params # hist.params0

\* C8: for every batch the steps happen in this order, once each: the hidden
\* state is reset to a fresh state for batch_size rows, the forward pass runs
\* and caches the loss, gradients are zeroed, the loss is backpropagated, one
\* optimizer step is applied; no forward pass starts from a hidden state left
\* by an earlier batch, and the parameters are not updated between the reset
\* and the forward pass of the same batch.  (checked under SpecTrain)
C8_BatchStepOrder ==
    LET order == <<"init_hidden", "forward", "zero_grad", "backward", "step">>
        done == IF pc \in {"zero_grad", "backward", "step"} THEN 1 ELSE 0
    IN /\ InBatch =>
            /\ Len(hist.steps) <= Len(order)
            /\ hist.steps = SubSeq(order, 1, Len(hist.steps))
       /\ pc = "append" => hist.steps = order
       /\ pc = "forward" =>
            /\ model.pretrain_model.hidden = [rows |-> call.batch_size, fresh |-> TRUE]
            /\ model.pretrain_model.params = Val(hist.reset)
       /\ Started =>
            /\ \A n \in 1 .. Len(hist.batches) :
                  hist.batches[n].hidden = [rows |-> call.batch_size, fresh |-> TRUE]
            /\ Len(hist.batches) = hist.opt_steps + done
       /\ pc \in {"zero_grad", "backward", "step", "append"} =>
            /\ ~IsNone(model.loss_variable)
            /\ call.loss_var = Val(model.loss_variable)

C8_Witness ==
    /\ pc = "append"
    /\ call.epoch = 1
    /\ call.pointer > 0
    /\ hist.opt_steps = 4
    /\ model.pretrain_model.params # hist.params0

\* C9: in every batch of train_generator the vocabulary indices the forward
\* pass masks are the generator's configured ignored_tokens (nothing when None)
\* and the batch's sentence lengths are passed as sentence_lengths, never as
\* the ignore set.  (checked under SpecTrain)
C9_MaskIsConfigured ==
    Started =>
        \A n \in 1 .. Len(hist.batches) :
            /\ hist.batches[n].ignored_tokens = model.ignored_tokens
            /\ hist.batches[n].sentence_lengths = Some(hist.batches[n].third)

\* what the code does instead: the sentence lengths are the ignore set
MaskIsSentenceLengths ==
    Started =>
        \A n \in 1 .. Len(hist.batches) :
            /\ hist.batches[n].ignored_tokens = Some(hist.batches[n].third)
            /\ hist.batches[n].sentence_lengths = None

\* C10: for every N >= 1, batch_size >= 1 and epoch count >= 1 (N < B and N not
\* a multiple of B included) train_generator runs to completion without
\* raising: each epoch writes its log line and the call returns an output
\* tensor of exactly the shape of x.  (checked under SpecTrain)
C10_TrainCompletes ==
    /\ pc # "raised"
    /\ pc = "done" =>
          /\ Val(result).y_output_all.shape = call.x.shape
          /\ Cardinality({i \in DOMAIN call.log : call.log[i].line = "epoch"})
                = call.iter_n_gen

\* when the call does return, it is as C10 says, and it returns exactly when
\* N is a positive multiple of batch_size
TrainCompletesOnMultiples ==
    /\ pc = "done" =>
          /\ Val(result).y_output_all.shape = call.x.shape
          /\ Cardinality({i \in DOMAIN call.log : call.log[i].line = "epoch"})
                = call.iter_n_gen
          /\ Rows % call.batch_size = 0
    /\ pc = "raised" =>
          /\ Rows % call.batch_size # 0
          /\ Val(result).raised = IF Rows < call.batch_size THEN "ZeroDivisionError"
                                  ELSE "RuntimeError"

C7_Witness ==
    /\ pc = "done"
    /\ Len(hist.original.shape) = 3
    /\ hist.original.shape[2] = 2
    /\ ~IsNone(call.ignored_tokens)
    /\ Cardinality(Elements(Val(call.ignored_tokens))) = 2
    /\ Val(result) # hist.original
    /\ \E idx \in Indices(hist.original.shape) : Val(result).data[idx] = 1

=============================================================================
